---------------------------- MODULE Spec2Model ----------------------------
(***************************************************************************)
(* A model of the DevEvents application: the Event and Booking schemas     *)
(* with their pre-save hooks, the createBooking server action, the         *)
(* BookEvent form, the GET /api/events/[slug] route and                    *)
(* getSimilarEventsBySlug.                                                 *)
(*                                                                         *)
(* Strings are sequences of one-character strings, so that toLowerCase,    *)
(* trim and the regular expressions are computed character by character.   *)
(***************************************************************************)
EXTENDS Integers, Sequences, FiniteSets, TLC

VARIABLES
    events,     \* the Event collection: a set of stored Event documents
    clock,      \* the wall clock that stamps createdAt
    doc,        \* one in-memory Event document (new Event(...), then save())
    bookings,   \* the Booking collection: a set of stored Booking documents
    calls,      \* the createBooking invocations, one record per caller slot
    form,       \* the BookEvent component's React state
    analytics,  \* the posthog events captured so far
    get,        \* one GET /api/events/[slug] request
    sim         \* one getSimilarEventsBySlug call

vars == <<events, clock, doc, bookings, calls, form, analytics, get, sim>>

----------------------------------------------------------------------------
(* Bounds of the model *)

NumCallers == 2     \* caller slots of createBooking
MaxEvents == 3      \* Event documents Event.create may store
MaxClock == 1       \* last createdAt tick
MaxEmailLen == 5    \* longest email of the exhaustive input set
MaxSlugLen == 3     \* longest slug of the exhaustive GET input set
MaxTitleLen == 3    \* longest title of the exhaustive title set
MaxLimit == 2       \* largest explicit limit passed to getSimilarEventsBySlug

(* Program constants *)

ObjectIdHexLen == 24    \* an ObjectId is 24 hexadecimal characters
DefaultLimit == 5       \* limit: number = 5

----------------------------------------------------------------------------
(* Characters and strings *)

Whitespace == {" "}
LowerLetters == {"a", "b", "c", "d", "e", "f", "g", "z"}
UpperLetters == {"A", "B", "C", "D", "E", "F", "G", "Z"}
Digits == {"0", "1", "2", "3", "4", "5", "6", "7", "8", "9"}
HexChars == Digits \cup {"a", "b", "c", "d", "e", "f"} \cup {"A", "B", "C", "D", "E", "F"}
\* \w of a JavaScript regular expression: [A-Za-z0-9_]
WordChars == LowerLetters \cup UpperLetters \cup Digits \cup {"_"}

\* String.prototype.toLowerCase, one character
ToLowerChar(ch) ==
    CASE ch = "A" -> "a" [] ch = "B" -> "b" [] ch = "C" -> "c" [] ch = "D" -> "d"
      [] ch = "E" -> "e" [] ch = "F" -> "f" [] ch = "G" -> "g" [] ch = "Z" -> "z"
      [] OTHER -> ch

ToLowerCase(s) == [i \in 1..Len(s) |-> ToLowerChar(s[i])]

RECURSIVE TrimStart(_)
TrimStart(s) ==
    IF s # <<>> /\ Head(s) \in Whitespace THEN TrimStart(Tail(s)) ELSE s

RECURSIVE TrimEnd(_)
TrimEnd(s) ==
    IF s # <<>> /\ s[Len(s)] \in Whitespace
    THEN TrimEnd(SubSeq(s, 1, Len(s) - 1))
    ELSE s

\* String.prototype.trim
Trim(s) == TrimEnd(TrimStart(s))

\* !x || x.trim() === ''
IsBlank(s) == s = <<>> \/ Trim(s) = <<>>

\* every string over the characters cs of length at most n
StringsUpTo(cs, n) == UNION {[1..k -> cs] : k \in 0..n}

\* the string of n copies of ch
Repeat(ch, n) == [i \in 1..n |-> ch]

----------------------------------------------------------------------------
(* Identifiers *)

\* Types.ObjectId.isValid on a string: 24 hexadecimal characters
ObjectIdIsValid(s) ==
    /\ Len(s) = ObjectIdHexLen
    /\ \A i \in 1..Len(s) : s[i] \in HexChars

\* new Types.ObjectId(hex): the identifier a hex string denotes, whatever the
\* case of its letters; an ObjectId is written here in lowercase
ToObjectId(s) == ToLowerCase(s)

HexDigit == <<"1", "2", "3", "4", "5", "6", "7", "8", "9">>

\* the n-th identifier the store assigns
Oid(n) == [i \in 1..ObjectIdHexLen |-> IF i = ObjectIdHexLen THEN HexDigit[n] ELSE "a"]

\* the same identifier, written by a client in uppercase
OidUpper(n) == [i \in 1..ObjectIdHexLen |-> IF i = ObjectIdHexLen THEN HexDigit[n] ELSE "A"]

----------------------------------------------------------------------------
(* Regular expressions *)

\* a looser expression, /^[^\s@]+@[^\s@]*$/ : nothing is asked of the domain
EmailRegexNoDomain(s) ==
    \E i \in 1..Len(s) :
        /\ s[i] = "@"
        /\ 1 < i
        /\ \A k \in 1..Len(s) : k # i => s[k] \notin (Whitespace \cup {"@"})

\* emailRegex.test(s), /^[^\s@]+@[^\s@]+\.[^\s@]+$/ : s splits as L @ D . T
\* with L, D and T non-empty and free of whitespace and of '@'
EmailRegexTest(s) ==
    \E i, j \in 1..Len(s) :
        /\ s[i] = "@"
        /\ s[j] = "."
        /\ 1 < i
        /\ i + 1 < j
        /\ j < Len(s)
        /\ \A k \in 1..Len(s) : k # i => s[k] \notin (Whitespace \cup {"@"})

\* a looser expression, /^[a-z0-9-]+$/ : hyphens anywhere
SlugRegexAnyHyphen(s) ==
    /\ s # <<>>
    /\ \A i \in 1..Len(s) : s[i] \in (LowerLetters \cup Digits \cup {"-"})

\* slugRegex.test(s), /^[a-z0-9]+(?:-[a-z0-9]+)*$/ , as the automaton of the
\* expression: inToken says whether the last character read was [a-z0-9]
RECURSIVE SlugRegexRun(_, _)
SlugRegexRun(s, inToken) ==
    IF s = <<>> THEN inToken
    ELSE IF Head(s) \in (LowerLetters \cup Digits) THEN SlugRegexRun(Tail(s), TRUE)
    ELSE IF Head(s) = "-" /\ inToken THEN SlugRegexRun(Tail(s), FALSE)
    ELSE FALSE

SlugRegexTest(s) == SlugRegexRun(s, FALSE)

----------------------------------------------------------------------------
(* Event schema: the pre-save hook *)

\* .replace(/[^\w\s-]/g, '')
RECURSIVE RemoveSpecial(_)
RemoveSpecial(s) ==
    IF s = <<>> THEN <<>>
    ELSE IF Head(s) \in (WordChars \cup Whitespace \cup {"-"})
         THEN <<Head(s)>> \o RemoveSpecial(Tail(s))
         ELSE RemoveSpecial(Tail(s))

\* .replace(/\s+/g, '-')
RECURSIVE SpacesToHyphen(_)
SpacesToHyphen(s) ==
    IF s = <<>> THEN <<>>
    ELSE IF Head(s) \in Whitespace
         THEN <<"-">> \o SpacesToHyphen(TrimStart(s))
         ELSE <<Head(s)>> \o SpacesToHyphen(Tail(s))

\* .replace(/-+/g, '-')
RECURSIVE CollapseHyphens(_)
CollapseHyphens(s) ==
    IF s = <<>> THEN <<>>
    ELSE IF Head(s) = "-" /\ Len(s) > 1 /\ s[2] = "-"
         THEN CollapseHyphens(Tail(s))
         ELSE <<Head(s)>> \o CollapseHyphens(Tail(s))

RECURSIVE StripLeadingHyphens(_)
StripLeadingHyphens(s) ==
    IF s # <<>> /\ Head(s) = "-" THEN StripLeadingHyphens(Tail(s)) ELSE s

RECURSIVE StripTrailingHyphens(_)
StripTrailingHyphens(s) ==
    IF s # <<>> /\ s[Len(s)] = "-"
    THEN StripTrailingHyphens(SubSeq(s, 1, Len(s) - 1))
    ELSE s

\* .replace(/^-+|-+$/g, '')
StripHyphens(s) == StripTrailingHyphens(StripLeadingHyphens(s))

\* the slug the hook derives from a title
Slugify(title) ==
    StripHyphens(CollapseHyphens(SpacesToHyphen(RemoveSpecial(Trim(ToLowerCase(title))))))


\* the setters of the slug path: lowercase: true, trim: true
SlugSetter(s) == Trim(ToLowerCase(s))

\* the setter of the title path: trim: true
TitleSetter(s) == Trim(s)

\* eventSchema.pre('save'), the slug part: the slug is derived again when the
\* title is new or modified
EventPreSaveSlug(d) ==
    IF d.titleModified
    THEN [d EXCEPT !.slug = SlugSetter(Slugify(d.title))]
    ELSE d

\* what makes save() of an Event document throw before anything is written:
\* the required title, the date that must parse, the HH:MM time, and the
\* agenda and tags that must hold at least one item.  The date and the time
\* are inputs that say whether new Date(date) is valid and whether the time
\* matches the hook's expression.
EventRejected(d, agendaLen, dateOk, timeOk) ==
    \/ d.title = <<>>
    \/ ~dateOk
    \/ ~timeOk
    \/ agendaLen = 0
    \/ d.tags = {}

\* eventSchema.index({ slug: 1 }, { unique: true }): another stored Event
\* already has this slug
SlugTaken(id, slug) == \E e \in events : e.id # id /\ e.slug = slug

\* the stored form of a document
StoredEvent(d, at) ==
    [id |-> d.id, title |-> d.title, slug |-> d.slug, tags |-> d.tags, createdAt |-> at]

EventExists(oid) == \E e \in events : e.id = oid

\* the document handle: none yet, or the saved document of this id
NoDoc == [state |-> "none", id |-> <<>>]

\* new Event({title, tags, ...}) with the next identifier of the store
NewEvent(title, tags) ==
    [id |-> Oid(Cardinality(events) + 1), title |-> TitleSetter(title),
     slug |-> <<>>, tags |-> tags, titleModified |-> TRUE]

\* Event.create({title, tags, ...}): a new document, validated, run through
\* the pre-save hook and inserted under the unique slug index.  A rejected
\* save writes nothing.
SaveEvent(title, tags, agendaLen, dateOk, timeOk) ==
    /\ Cardinality(events) < MaxEvents
    /\ LET d0 == NewEvent(title, tags)
           d == EventPreSaveSlug(d0)
       IN  IF EventRejected(d0, agendaLen, dateOk, timeOk) \/ SlugTaken(d.id, d.slug)
           THEN UNCHANGED events
           ELSE events' = events \cup {StoredEvent(d, clock)}
    /\ UNCHANGED <<clock, doc, bookings, calls, form, analytics, get, sim>>

\* time passes between two saves; two saves within one tick get the same
\* createdAt
Tick ==
    /\ clock < MaxClock
    /\ clock' = clock + 1
    /\ UNCHANGED <<events, doc, bookings, calls, form, analytics, get, sim>>

\* const doc = await Event.create({title, tags, ...}): as SaveEvent, and the
\* caller keeps the document
DocCreate(title, tags) ==
    /\ doc.state = "none"
    /\ Cardinality(events) < MaxEvents
    /\ LET d0 == NewEvent(title, tags)
           d == EventPreSaveSlug(d0)
       IN  IF EventRejected(d0, 1, TRUE, TRUE) \/ SlugTaken(d.id, d.slug)
           THEN UNCHANGED <<events, doc>>
           ELSE /\ events' = events \cup {StoredEvent(d, clock)}
                /\ doc' = [state |-> "saved", id |-> d.id]
    /\ UNCHANGED <<clock, bookings, calls, form, analytics, get, sim>>

\* doc.title = title; await doc.save(): the hook derives the slug again when
\* the title changed.  A save that throws leaves the store as it was.
DocUpdateTitle(title) ==
    /\ doc.state = "saved"
    /\ \E e \in events :
          /\ e.id = doc.id
          /\ LET d0 == [id |-> e.id, title |-> TitleSetter(title), slug |-> e.slug,
                        tags |-> e.tags,
                        titleModified |-> (TitleSetter(title) # e.title)]
                 d == EventPreSaveSlug(d0)
             IN  IF EventRejected(d0, 1, TRUE, TRUE) \/ SlugTaken(d.id, d.slug)
                 THEN UNCHANGED events
                 ELSE events' = (events \ {e}) \cup {StoredEvent(d, e.createdAt)}
    /\ UNCHANGED <<clock, doc, bookings, calls, form, analytics, get, sim>>

----------------------------------------------------------------------------
(* createBooking *)

\* the messages of BookingResponse
MissingEventId == "Event ID is required"
MissingEmail == "Email is required"
InvalidEmailFormat == "Invalid email format"
InvalidEventIdFormat == "Invalid event ID format"
AlreadyBooked == "You have already booked this event"
EventNotFound == "Event not found"
InvalidBookingData == "Invalid booking data"
InternalError == "Failed to create booking. Please try again."
Created == "Booking created successfully"
Ok == "ok"
NoResult == "none"

Callers == 1..NumCallers

\* the checks with the event id's format tested before the email's
ValidateInputIdFirst(eventId, email) ==
    IF IsBlank(eventId) THEN MissingEventId
    ELSE IF ~ObjectIdIsValid(eventId) THEN InvalidEventIdFormat
    ELSE IF IsBlank(email) THEN MissingEmail
    ELSE IF ~EmailRegexTest(email) THEN InvalidEmailFormat
    ELSE Ok

\* the four input checks, in the order of the code; Ok when all pass
ValidateInput(eventId, email) ==
    IF IsBlank(eventId) THEN MissingEventId
    ELSE IF IsBlank(email) THEN MissingEmail
    ELSE IF ~EmailRegexTest(email) THEN InvalidEmailFormat
    ELSE IF ~ObjectIdIsValid(eventId) THEN InvalidEventIdFormat
    ELSE Ok

\* email.toLowerCase().trim()
NormEmail(email) == Trim(ToLowerCase(email))

\* a lookup by eventId alone
BookingExistsForEvent(oid, email) ==
    \E b \in bookings : b.eventId = oid

\* Booking.findOne({eventId, email}) finds a document
BookingExists(oid, email) ==
    \E b \in bookings : b.eventId = oid /\ b.email = email

\* the compound index without unique: true
IndexNotUnique(oid, email) == FALSE

\* bookingSchema.index({ eventId: 1, email: 1 }, { unique: true }): the store
\* refuses an insert whose pair is already there
UniqueIndexRefuses(oid, email) == BookingExists(oid, email)

\* a catch block without the branch for the pre-save hook's error
MapErrorNoEventBranch(phrases) ==
    IF "duplicate key" \in phrases THEN AlreadyBooked
    ELSE IF "validation failed" \in phrases THEN InvalidBookingData
    ELSE InternalError

\* the catch block: the message of the error decides the response.  An error
\* is the set of the phrases its message contains.
MapError(phrases) ==
    IF "duplicate key" \in phrases THEN AlreadyBooked
    ELSE IF "does not exist" \in phrases THEN EventNotFound
    ELSE IF "validation failed" \in phrases THEN InvalidBookingData
    ELSE InternalError

DuplicateKeyError == {"duplicate key"}
EventMissingError == {"does not exist"}
ValidationError == {"validation failed"}
StoreError == {}

IdleCall == [pc |-> "idle", owner |-> "none", eventId |-> <<>>, email |-> <<>>,
             result |-> NoResult, touched |-> FALSE, faulted |-> FALSE,
             passedLookup |-> FALSE, dupAtStart |-> FALSE, evAtStart |-> FALSE]

\* createBooking({eventId, email}) up to its first await: the input checks.
\* dupAtStart and evAtStart record what the store held when the call began.
Invoke(c, owner, eventId, email) ==
    /\ calls[c].pc = "idle"
    /\ LET v == ValidateInput(eventId, email)
       IN  calls' = [calls EXCEPT ![c] =
             [IdleCall EXCEPT
                !.pc = IF v = Ok THEN "connect" ELSE "done",
                !.owner = owner,
                !.eventId = eventId,
                !.email = email,
                !.result = IF v = Ok THEN NoResult ELSE v,
                !.dupAtStart = BookingExists(ToObjectId(eventId), NormEmail(email)),
                !.evAtStart = EventExists(ToObjectId(eventId))]]

\* await connectDB()
Connect(c) ==
    /\ calls[c].pc = "connect"
    /\ calls' = [calls EXCEPT ![c].pc = "findOne", ![c].touched = TRUE]
    /\ UNCHANGED <<events, clock, doc, bookings, form, analytics, get, sim>>

\* await Booking.findOne(...): the application-level duplicate lookup
FindOne(c) ==
    /\ calls[c].pc = "findOne"
    /\ calls' = [calls EXCEPT ![c] =
          IF BookingExists(ToObjectId(calls[c].eventId), NormEmail(calls[c].email))
          THEN [@ EXCEPT !.pc = "done", !.result = AlreadyBooked]
          ELSE [@ EXCEPT !.pc = "preSave", !.passedLookup = TRUE]]
    /\ UNCHANGED <<events, clock, doc, bookings, form, analytics, get, sim>>

\* Booking.create, before the write: the schema's email validator, then
\* bookingSchema.pre('save') with its await Event.findById(eventId)
PreSave(c) ==
    /\ calls[c].pc = "preSave"
    /\ calls' = [calls EXCEPT ![c] =
          IF ~EmailRegexTest(NormEmail(calls[c].email))
          THEN [@ EXCEPT !.pc = "done", !.result = MapError(ValidationError)]
          ELSE IF ~EventExists(ToObjectId(calls[c].eventId))
          THEN [@ EXCEPT !.pc = "done", !.result = MapError(EventMissingError)]
          ELSE [@ EXCEPT !.pc = "insert"]]
    /\ UNCHANGED <<events, clock, doc, bookings, form, analytics, get, sim>>

\* Booking.create, the write: the store checks the unique index and inserts
\* in one step
Insert(c) ==
    /\ calls[c].pc = "insert"
    /\ LET oid == ToObjectId(calls[c].eventId)
           email == NormEmail(calls[c].email)
       IN  IF UniqueIndexRefuses(oid, email)
           THEN /\ calls' = [calls EXCEPT ![c].pc = "done",
                                          ![c].result = MapError(DuplicateKeyError)]
                /\ UNCHANGED bookings
           ELSE /\ bookings' = bookings \cup
                      {[bookingId |-> Cardinality(bookings) + 1, eventId |-> oid,
                        email |-> email]}
                /\ calls' = [calls EXCEPT ![c].pc = "done", ![c].result = Created]
    /\ UNCHANGED <<events, clock, doc, form, analytics, get, sim>>

\* any store access of the call (connect, findOne, findById, insert) fails
\* with an error of the store
StoreFault(c) ==
    /\ calls[c].pc \in {"connect", "findOne", "preSave", "insert"}
    /\ calls' = [calls EXCEPT ![c].pc = "done", ![c].touched = TRUE,
                              ![c].faulted = TRUE,
                              ![c].result = MapError(StoreError)]
    /\ UNCHANGED <<events, clock, doc, bookings, form, analytics, get, sim>>

\* the steps of a call after its input checks
CallStep(c) == Connect(c) \/ FindOne(c) \/ PreSave(c) \/ Insert(c) \/ StoreFault(c)

\* a caller other than the form invokes the server action
DirectCall(c, eventId, email) ==
    /\ Invoke(c, "direct", eventId, email)
    /\ UNCHANGED <<events, clock, doc, bookings, form, analytics, get, sim>>

----------------------------------------------------------------------------
(* Initial state *)

\* eventId is the component's prop (empty until it is mounted); email,
\* submitted, loading and error are its useState cells, error = NoResult being
\* null.  lastOutcome and lastReason record how the last createBooking call
\* ended: "Created", "Rejected" (with its message) or "Threw".
IdleForm == [eventId |-> <<>>, email |-> <<>>, submitted |-> FALSE,
             loading |-> FALSE, error |-> NoResult,
             lastOutcome |-> "none", lastReason |-> NoResult]

\* a request: its slug, where it stands, the responses sent (count, status,
\* message, the event of a 200), whether the store was reached, and whether a
\* store access failed
IdleGet == [pc |-> "idle", slug |-> <<>>, responses |-> 0, status |-> 0,
            message |-> "none", event |-> <<>>, touched |-> FALSE,
            faulted |-> FALSE]

\* a call: its arguments, where it stands, the source event it found (id and
\* tags), the collection as the similar-events query saw it, what it
\* returned, and why
IdleSim == [pc |-> "idle", slug |-> <<>>, limit |-> 0, source |-> <<>>,
            tags |-> {}, seen |-> {}, result |-> <<>>, outcome |-> "none"]

Init ==
    /\ events = {}
    /\ clock = 0
    /\ doc = NoDoc
    /\ bookings = {}
    /\ calls = [c \in Callers |-> IdleCall]
    /\ form = IdleForm
    /\ analytics = {}
    /\ get = IdleGet
    /\ sim = IdleSim

----------------------------------------------------------------------------
(* BookEvent: the booking form *)

EmailRequired == "Email is required"
FailedFallback == "Failed to create booking"
UnexpectedError == "An unexpected error occurred. Please try again."

\* the posthog events of the component
BookingSuccessful == [name |-> "booking_successful", errorType |-> "none"]
BookingFailedValidation == [name |-> "booking_failed", errorType |-> "validation_error"]
BookingFailedUnexpected == [name |-> "booking_failed", errorType |-> "unexpected_error"]

\* <BookEvent eventId={...} />
Mount(eventId) ==
    /\ form.eventId = <<>>
    /\ form' = [form EXCEPT !.eventId = eventId]
    /\ UNCHANGED <<events, clock, doc, bookings, calls, analytics, get, sim>>

\* the input is rendered while nothing was submitted, and is disabled while
\* loading
InputEnabled == form.eventId # <<>> /\ ~form.submitted /\ ~form.loading

\* the submit button: rendered while nothing was submitted, and
\* disabled={loading || !email.trim()}
SubmitEnabled ==
    /\ form.eventId # <<>>
    /\ ~form.submitted
    /\ ~form.loading
    /\ ~IsBlank(form.email)

\* onChange of the input
Edit(value) ==
    /\ InputEnabled
    /\ form' = [form EXCEPT !.email = value,
                            !.error = IF form.error # NoResult THEN NoResult ELSE @]
    /\ UNCHANGED <<events, clock, doc, bookings, calls, analytics, get, sim>>

\* handleSubmit up to its await: the error is reset, a blank email is refused
\* without a call, otherwise loading is set and createBooking is invoked (on
\* the free slot c) with the trimmed email
Submit(c) ==
    /\ SubmitEnabled
    /\ IF IsBlank(form.email)
       THEN /\ form' = [form EXCEPT !.error = EmailRequired]
            /\ UNCHANGED calls
       ELSE /\ form' = [form EXCEPT !.error = NoResult, !.loading = TRUE,
                                    !.lastOutcome = "none", !.lastReason = NoResult]
            /\ Invoke(c, "form", form.eventId, Trim(form.email))
    /\ UNCHANGED <<events, clock, doc, bookings, analytics, get, sim>>

\* the component's state after the await: delivered says whether the call's
\* result arrived (otherwise the await throws); throws1 whether
\* posthog.capture throws in the try block, throws2 whether it throws in the
\* catch block.  finally always clears loading.
AfterAwait(f, res, delivered, throws1, throws2) ==
    LET settled == [f EXCEPT !.loading = FALSE,
                             !.lastOutcome = IF ~delivered THEN "Threw"
                                             ELSE IF res = Created THEN "Created"
                                             ELSE "Rejected",
                             !.lastReason = IF ~delivered THEN UnexpectedError
                                            ELSE IF res = Created THEN NoResult
                                            ELSE res]
    IN  IF delivered /\ ~throws1
        THEN IF res = Created
             THEN [settled EXCEPT !.submitted = TRUE, !.email = <<>>]
             ELSE [settled EXCEPT !.error = IF res = "" THEN FailedFallback ELSE res]
        ELSE IF ~throws2
             THEN [settled EXCEPT !.error = UnexpectedError]
             ELSE settled

\* the events posthog received from the code after the await
Captured(res, delivered, throws1, throws2) ==
    (IF delivered /\ ~throws1
     THEN {IF res = Created THEN BookingSuccessful ELSE BookingFailedValidation}
     ELSE {})
    \cup
    (IF (~delivered \/ throws1) /\ ~throws2 THEN {BookingFailedUnexpected} ELSE {})

\* handleSubmit from its await on: the call of slot c has ended
Return(c) ==
    /\ calls[c].owner = "form"
    /\ calls[c].pc = "done"
    /\ \E delivered, throws1, throws2 \in BOOLEAN :
          /\ form' = AfterAwait(form, calls[c].result, delivered, throws1, throws2)
          /\ analytics' = analytics \cup
                             Captured(calls[c].result, delivered, throws1, throws2)
    /\ calls' = [calls EXCEPT ![c] = IdleCall]
    /\ UNCHANGED <<events, clock, doc, bookings, get, sim>>

\* "Book another spot"
BookAnother ==
    /\ form.eventId # <<>>
    /\ form.submitted
    /\ form' = [form EXCEPT !.submitted = FALSE]
    /\ UNCHANGED <<events, clock, doc, bookings, calls, analytics, get, sim>>

\* what the user types: nothing, a blank, an address, the same address in
\* another case, and an address the browser accepts and the server does not
EmailNoTld == <<"a", "@", "a">>
FormEmails == {<<>>, <<" ">>, <<"a", "@", "a", ".", "a">>, <<"A", "@", "a", ".", "a">>, EmailNoTld}

NextForm ==
    \/ SaveEvent(<<"a">>, {"ai"}, 1, TRUE, TRUE)
    \/ \E eventId \in {Oid(1), Oid(MaxEvents + 1)} : Mount(eventId)
    \/ \E value \in FormEmails : Edit(value)
    \/ \E c \in Callers : Submit(c)
    \/ \E c \in Callers : CallStep(c)
    \/ \E c \in Callers : Return(c)
    \/ BookAnother

SpecForm == Init /\ [][NextForm]_vars

\* the state of the form's state machine
FormState(f) ==
    IF f.loading THEN "Submitting"
    ELSE IF f.submitted THEN "Success"
    ELSE IF f.error # NoResult THEN "Failed"
    ELSE "Idle"

\* the createBooking calls of the form that have not been handled yet
InFlight == {c \in Callers : calls[c].owner = "form"}

\* the transitions of Idle -> Submitting -> {Success, Failed}, Failed -> Idle
\* on an edit, Failed -> Submitting on a retry (which clears the reason), and
\* Success -> Idle by "book another"
FormTransitions ==
    {<<"Idle", "Idle">>, <<"Idle", "Submitting">>,
     <<"Submitting", "Submitting">>, <<"Submitting", "Success">>,
     <<"Submitting", "Failed">>,
     <<"Failed", "Failed">>, <<"Failed", "Idle">>, <<"Failed", "Submitting">>,
     <<"Success", "Success">>, <<"Success", "Idle">>}

\* C6 as stated: the form moves only along Idle -> Submitting ->
\* {Success, Failed}, Failed -> Idle (edit or retry) and Success -> Idle
\* (book another); at most one createBooking call is in flight, none is
\* started while one is, and loading is cleared when the call ends.
C6_AsStated ==
    [][/\ <<FormState(form), FormState(form')>> \in FormTransitions
       /\ (FormState(form) = "Success" /\ FormState(form') = "Idle")
          => (form.submitted /\ ~form'.submitted /\ calls' = calls)
       /\ Cardinality(InFlight') <= 1
       /\ form'.loading <=> InFlight' # {}
       /\ (InFlight # {} /\ InFlight' = {}) => ~form'.loading]_vars

\* C7 as stated: when the call has ended, whatever posthog.capture does, a
\* Created result leaves the form in Success with the input cleared, and a
\* Rejected result or a throw leaves it in Failed showing the reason.
C7_AsStated ==
    [][(form.loading /\ ~form'.loading) =>
          /\ form'.lastOutcome = "Created"
             => (FormState(form') = "Success" /\ form'.email = <<>>)
          /\ form'.lastOutcome \in {"Rejected", "Threw"}
             => (FormState(form') = "Failed" /\ form'.error = form'.lastReason)]_vars

----------------------------------------------------------------------------
(* createBooking, concurrent callers: a few inputs that collide *)

\* "a@a.a", the same address in another case, and another address
EmailLower == <<"a", "@", "a", ".", "a">>
EmailMixed == <<"A", "@", "a", ".", "a">>
EmailOther == <<"b", "@", "a", ".", "a">>

TitleA == <<"a">>
TagAi == "ai"
TagInfra == "infra"

\* the inputs of the concurrent callers: the first Event with an address, with
\* the same address in another case and with another address; an identifier
\* never assigned
BookingInputs ==
    {<<Oid(1), EmailLower>>, <<Oid(1), EmailMixed>>, <<Oid(1), EmailOther>>,
     <<Oid(MaxEvents + 1), EmailLower>>}

NextBooking ==
    \/ SaveEvent(TitleA, {TagAi}, 1, TRUE, TRUE)
    \/ \E c \in Callers :
          /\ calls[c].pc = "idle"
          /\ \E in \in BookingInputs : DirectCall(c, in[1], in[2])
    \/ \E c \in Callers : CallStep(c)

SpecBooking == Init /\ [][NextBooking]_vars

(* createBooking, one caller: every email up to MaxEmailLen characters *)

EmailChars == {"a", "A", "@", ".", " "}
ValidateEmails == StringsUpTo(EmailChars, MaxEmailLen)

\* no identifier, a blank one, two spellings of a stored one, one a character
\* short, one with a character that is no hex digit, one never assigned
ValidateEventIds ==
    {<<>>, <<" ">>, Oid(1), OidUpper(1), Repeat("a", ObjectIdHexLen - 1),
     Repeat("g", ObjectIdHexLen), Oid(MaxEvents + 1)}

NextValidate ==
    \/ SaveEvent(TitleA, {TagAi}, 1, TRUE, TRUE)
    \/ /\ calls[1].pc = "idle"
       /\ \E eventId \in ValidateEventIds, email \in ValidateEmails :
             DirectCall(1, eventId, email)
    \/ CallStep(1)

SpecValidate == Init /\ [][NextValidate]_vars

----------------------------------------------------------------------------
(* Claims about createBooking *)

Started(c) == calls[c].pc # "idle"
Done(c) == calls[c].pc = "done"
WellFormed(c) ==
    /\ ~IsBlank(calls[c].eventId) /\ ObjectIdIsValid(calls[c].eventId)
    /\ ~IsBlank(calls[c].email) /\ EmailRegexTest(calls[c].email)
\* the same strings up to the case of their letters
SameFolded(s, t) == s = t \/ (Len(s) = Len(t) /\ ToLowerCase(s) = ToLowerCase(t))
SameEvent(c, d) == SameFolded(calls[c].eventId, calls[d].eventId)
SamePair(c, d) ==
    /\ SameFolded(calls[c].email, calls[d].email)
    /\ SameEvent(c, d)

\* the calls that carry c's pair and passed the duplicate lookup
Racers(c) == {d \in Callers : calls[d].passedLookup /\ SamePair(c, d)}

NoTwoBookingsOfOnePair ==
    \A b1, b2 \in bookings :
        (b1.eventId = b2.eventId /\ b1.email = b2.email) => b1 = b2

\* among the calls rs, exactly one created a booking and every other one was
\* told AlreadyBooked
OneWinner(rs) ==
    /\ \E d \in rs : calls[d].result = Created
    /\ \A d, e \in rs : (calls[d].result = Created /\ calls[e].result = Created) => d = e
    /\ \A d \in rs : calls[d].result \in {Created, AlreadyBooked}

\* C1 as stated: the collection never holds two bookings of one
\* (eventId, lowercase-trimmed email), and when two or more calls with the
\* identical pair have all passed the duplicate lookup (and no store access
\* failed), exactly one returns success and every other one AlreadyBooked.
C1_AsStated ==
    /\ NoTwoBookingsOfOnePair
    /\ \A c \in Callers :
          calls[c].passedLookup =>
             LET rs == Racers(c)
             IN  (/\ \E d \in rs : d # c
                  /\ \A d \in rs : Done(d) /\ ~calls[d].faulted)
                 => OneWinner(rs)

\* C1, amended: the same, for a pair whose Event was stored when the calls
\* were made.
C1_UniqueUnderRace ==
    /\ NoTwoBookingsOfOnePair
    /\ \A b \in bookings : b.email = Trim(ToLowerCase(b.email))
    /\ \A c \in Callers :
          calls[c].passedLookup =>
             LET rs == Racers(c)
             IN  (/\ \E d \in rs : d # c
                  /\ \A d \in rs : Done(d) /\ ~calls[d].faulted /\ calls[d].evAtStart)
                 => OneWinner(rs)

\* two calls of one pair both passed the lookup; one created the booking and
\* the store's index turned the other away
C1_Witness ==
    \E c, d \in Callers :
        /\ c # d /\ SamePair(c, d)
        /\ calls[c].passedLookup /\ calls[d].passedLookup
        /\ Done(c) /\ Done(d)
        /\ calls[c].result = Created /\ calls[d].result = AlreadyBooked

\* a call whose inputs are well formed, whose Event was stored when it was
\* made, and whose store accesses all succeeded
ValidCall(c) == Done(c) /\ calls[c].evAtStart /\ ~calls[c].faulted /\ WellFormed(c)

\* C2 as stated: a valid call succeeds when no other call was made with its
\* pair; it fails with AlreadyBooked when its pair was booked before; it
\* succeeds when every other call for its event carries a different email.
C2_AsStated ==
    \A c \in Callers : ValidCall(c) =>
        /\ calls[c].dupAtStart => calls[c].result = AlreadyBooked
        /\ (\A d \in Callers \ {c} :
               (Started(d) /\ SameEvent(c, d)) => calls[d].email # calls[c].email)
           => calls[c].result = Created

\* C2, amended: "a different email" is one that differs after lowercasing.
C2_CreateOnceThenDuplicate ==
    /\ \A c \in Callers : ValidCall(c) =>
        /\ calls[c].result \in {Created, AlreadyBooked}
        /\ calls[c].dupAtStart => calls[c].result = AlreadyBooked
        /\ (\A d \in Callers \ {c} : Started(d) => ~SamePair(c, d))
           => calls[c].result = Created
    /\ \A c, d \in Callers :
        (c # d /\ SamePair(c, d) /\ calls[c].result = Created) => calls[d].result # Created

\* one call created a booking and a later one with the identical pair, made
\* when the booking was stored, was turned away
C2_Witness ==
    \E c, d \in Callers :
        /\ c # d /\ ValidCall(c) /\ ValidCall(d)
        /\ SamePair(c, d)
        /\ calls[c].result = Created
        /\ calls[d].dupAtStart /\ calls[d].result = AlreadyBooked

\* the malformed emails of the claim
MissingAt(e) == \A i \in 1..Len(e) : e[i] # "@"
MissingDomain(e) == e # <<>> /\ e[Len(e)] = "@"
Malformed(e) == e = <<>> \/ MissingAt(e) \/ MissingDomain(e)

NoMalformedStored ==
    \A b \in bookings, c \in Callers :
        (Started(c) /\ NormEmail(calls[c].email) = b.email) => ~Malformed(calls[c].email)

\* C3 as stated: a call with an event id and a malformed email (no '@', no
\* domain, or empty) fails with InvalidEmailFormat and inserts nothing.
C3_AsStated ==
    /\ NoMalformedStored
    /\ \A c \in Callers :
        (Started(c) /\ ~IsBlank(calls[c].eventId) /\ Malformed(calls[c].email))
        => /\ Done(c) /\ ~calls[c].touched
           /\ calls[c].result = InvalidEmailFormat

\* C3, amended: an empty or blank email is rejected as MissingEmail; every
\* other malformed email as InvalidEmailFormat; neither reaches the store.
C3_MalformedEmailRejected ==
    /\ NoMalformedStored
    /\ \A c \in Callers :
        (Started(c) /\ ~IsBlank(calls[c].eventId) /\ Malformed(calls[c].email))
        => /\ Done(c) /\ ~calls[c].touched
           /\ calls[c].result =
                 IF IsBlank(calls[c].email) THEN MissingEmail ELSE InvalidEmailFormat

\* a call with a non-blank email that has no domain was rejected
C3_Witness ==
    \E c \in Callers :
        /\ Done(c) /\ ~IsBlank(calls[c].eventId)
        /\ MissingDomain(calls[c].email)
        /\ calls[c].result = InvalidEmailFormat

\* C4: a call with well-formed inputs whose eventId references no stored
\* Event (and whose store accesses succeed) fails with EventNotFound, and no
\* booking references an Event that is not stored.
C4_UnknownEventRejected ==
    /\ \A b \in bookings : EventExists(b.eventId)
    /\ \A c \in Callers :
        (/\ Done(c) /\ ~calls[c].faulted /\ WellFormed(c)
         /\ ~EventExists(ToLowerCase(calls[c].eventId)))
        => calls[c].result = EventNotFound

\* a call for an identifier that is never assigned came back EventNotFound
C4_Witness ==
    \E c \in Callers :
        /\ Done(c) /\ calls[c].eventId = Oid(MaxEvents + 1)
        /\ calls[c].passedLookup
        /\ calls[c].result = EventNotFound

\* C5: the rejection is that of the first failing check, in the order event
\* id present, email present, email format, event id format; and the store
\* is reached only by a call that passes all four.
C5_ValidationOrder ==
    \A c \in Callers : Started(c) =>
        LET id == calls[c].eventId
            em == calls[c].email
            r == calls[c].result
        IN  /\ IsBlank(id) => r = MissingEventId
            /\ (~IsBlank(id) /\ IsBlank(em)) => r = MissingEmail
            /\ (~IsBlank(id) /\ ~IsBlank(em) /\ ~EmailRegexTest(em))
               => r = InvalidEmailFormat
            /\ (~IsBlank(id) /\ ~IsBlank(em) /\ EmailRegexTest(em) /\ ~ObjectIdIsValid(id))
               => r = InvalidEventIdFormat
            /\ r \in {MissingEventId, MissingEmail, InvalidEmailFormat, InvalidEventIdFormat}
               => ~calls[c].touched /\ Done(c)
            /\ calls[c].touched
               => /\ ~IsBlank(id) /\ ~IsBlank(em)
                  /\ EmailRegexTest(em) /\ ObjectIdIsValid(id)

\* an input failing two checks at once (a malformed email and a malformed
\* event id) was rejected for the earlier one
C5_Witness ==
    \E c \in Callers :
        /\ Done(c)
        /\ ~IsBlank(calls[c].eventId) /\ ~ObjectIdIsValid(calls[c].eventId)
        /\ ~IsBlank(calls[c].email) /\ ~EmailRegexTest(calls[c].email)
        /\ calls[c].result = InvalidEmailFormat

----------------------------------------------------------------------------
(* GET /api/events/[slug] *)

SlugRequired == "Slug parameter is required"
InvalidSlugFormat == "Invalid slug format. Slug must contain only lowercase letters, numbers, and hyphens"
NotFoundMessage == "Event with slug not found"
FetchedMessage == "Event fetched successfully"
ConfigError == "Database configuration error"
FetchFailed == "Failed to fetch event"

\* NextResponse.json(body, {status}): one more response of the request
Respond(g, status, message) ==
    [g EXCEPT !.pc = "done", !.responses = @ + 1, !.status = status,
              !.message = message]

\* GET up to its first await on the store: the two checks of the slug.  An
\* absent slug and an empty one are the same to !slug.
GetRequest(slug) ==
    /\ get.pc \in {"idle", "done"}
    /\ LET g == [IdleGet EXCEPT !.slug = slug]
       IN  get' = IF slug = <<>> THEN Respond(g, 400, SlugRequired)
                  ELSE IF ~SlugRegexTest(slug) THEN Respond(g, 400, InvalidSlugFormat)
                  ELSE [g EXCEPT !.pc = "connect"]
    /\ UNCHANGED <<events, clock, doc, bookings, calls, form, analytics, sim>>

\* await connectDB()
GetConnect ==
    /\ get.pc = "connect"
    /\ get' = [get EXCEPT !.pc = "query", !.touched = TRUE]
    /\ UNCHANGED <<events, clock, doc, bookings, calls, form, analytics, sim>>

\* await Event.findOne({ slug }), then 404 or 200
GetQuery ==
    /\ get.pc = "query"
    /\ IF \E e \in events : e.slug = get.slug
       THEN \E e \in events :
               /\ e.slug = get.slug
               /\ get' = [Respond(get, 200, FetchedMessage) EXCEPT !.event = e.id]
       ELSE get' = Respond(get, 404, NotFoundMessage)
    /\ UNCHANGED <<events, clock, doc, bookings, calls, form, analytics, sim>>

\* connectDB or the query throws; the catch block answers 500, with one
\* message when the error names MONGODB_URI and another otherwise
GetFault(namesUri) ==
    /\ get.pc \in {"connect", "query"}
    /\ get' = [Respond(get, 500, IF namesUri THEN ConfigError ELSE FetchFailed)
                 EXCEPT !.touched = TRUE, !.faulted = TRUE]
    /\ UNCHANGED <<events, clock, doc, bookings, calls, form, analytics, sim>>

TitleB == <<"b">>
TitleAA == <<"a", " ", "a">>
GetTitles == {TitleA, TitleB, TitleAA}

GetSlugChars == {"a", "A", "-", "_"}
GetSlugs == StringsUpTo(GetSlugChars, MaxSlugLen)

NextGet ==
    \/ \E title \in GetTitles : SaveEvent(title, {TagAi}, 1, TRUE, TRUE)
    \/ /\ get.pc \in {"idle", "done"}
       /\ \E slug \in GetSlugs : GetRequest(slug)
    \/ GetConnect
    \/ GetQuery
    \/ \E namesUri \in BOOLEAN : GetFault(namesUri)

SpecGet == Init /\ [][NextGet]_vars

\* the slug pattern, said without the expression: lowercase letters, digits
\* and hyphens, no hyphen first or last, no two hyphens in a row
WellFormedSlug(s) ==
    /\ s # <<>>
    /\ \A i \in 1..Len(s) : s[i] \in (LowerLetters \cup Digits \cup {"-"})
    /\ s[1] # "-" /\ s[Len(s)] # "-"
    /\ \A i \in 1..(Len(s) - 1) : ~(s[i] = "-" /\ s[i + 1] = "-")

\* C10: every request gets exactly one response: 400 for a missing slug and
\* for a malformed one, both before the store is reached; for a well-formed
\* slug 200 with the stored event of that slug, 404 when none is stored, 500
\* when the connection or the query failed.
C10_GetResponses ==
    [][get' # get =>
        /\ get'.responses = (IF get'.pc = "done" THEN 1 ELSE 0)
        /\ get'.slug = <<>>
           => (get'.pc = "done" /\ get'.status = 400 /\ ~get'.touched)
        /\ (get'.slug # <<>> /\ ~WellFormedSlug(get'.slug))
           => (get'.pc = "done" /\ get'.status = 400 /\ ~get'.touched)
        /\ get'.touched => WellFormedSlug(get'.slug)
        /\ (get'.pc = "done" /\ WellFormedSlug(get'.slug))
           => /\ get'.status = (IF get'.faulted THEN 500
                                ELSE IF \E e \in events : e.slug = get'.slug THEN 200
                                ELSE 404)
              /\ get'.status = 200
                 => \E e \in events : e.id = get'.event /\ e.slug = get'.slug]_vars

\* a request for the slug of a stored event was answered 200 with that event
C10_Witness ==
    /\ get.pc = "done" /\ get.status = 200 /\ get.responses = 1
    /\ \E e \in events : e.id = get.event /\ e.slug = get.slug /\ e.title = TitleAA

----------------------------------------------------------------------------
(* getSimilarEventsBySlug *)

\* the events other than the source that carry one of the tags:
\* {_id: {$ne: event._id}, tags: {$in: event.tags}}
Matches(evs, source, tags) ==
    {e \in evs : e.id # source /\ e.tags \cap tags # {}}

\* .sort({ createdAt: -1 }): the orders of the set S with the newest first;
\* events of one createdAt come in any order
SortedNewestFirst(S) ==
    {o \in [1..Cardinality(S) -> S] :
        /\ \A i, j \in 1..Cardinality(S) : i # j => o[i] # o[j]
        /\ \A i, j \in 1..Cardinality(S) : i < j => o[i].createdAt >= o[j].createdAt}

\* .limit(n) of the store: the first n, and everything when n is 0
Limit(o, n) ==
    IF n = 0 \/ n >= Len(o) THEN o ELSE SubSeq(o, 1, n)

\* the place of an event in the order of insertion
InsertionIndex(e) == CHOOSE i \in 1..Len(HexDigit) : Oid(i) = e.id

\* a query that cuts to the limit before it sorts: the first n in the order
\* of insertion, then newest first
LimitBeforeSort(S, n) ==
    LET firstN == {e \in S :
                     n = 0 \/ Cardinality({f \in S : InsertionIndex(f) < InsertionIndex(e)}) < n}
    IN  SortedNewestFirst(firstN)

\* Event.find(...).limit(n).sort({createdAt: -1}): the store sorts, then cuts
SortThenLimit(S, n) == {Limit(o, n) : o \in SortedNewestFirst(S)}

Ids(o) == [i \in 1..Len(o) |-> o[i].id]

\* getSimilarEventsBySlug(slug, limit) up to its first await
SimCall(slug, limit) ==
    /\ sim.pc = "idle"
    /\ sim' = IF IsBlank(slug)
              THEN [IdleSim EXCEPT !.pc = "done", !.slug = slug, !.limit = limit,
                                   !.outcome = "invalid"]
              ELSE [IdleSim EXCEPT !.pc = "connect", !.slug = slug, !.limit = limit]
    /\ UNCHANGED <<events, clock, doc, bookings, calls, form, analytics, get>>

\* await connectDB()
SimConnect ==
    /\ sim.pc = "connect"
    /\ sim' = [sim EXCEPT !.pc = "findOne"]
    /\ UNCHANGED <<events, clock, doc, bookings, calls, form, analytics, get>>

\* await Event.findOne({ slug }): the source event, or [] when there is none
\* or it has no tags
SimFindOne ==
    /\ sim.pc = "findOne"
    /\ IF \E e \in events : e.slug = sim.slug
       THEN \E e \in events :
               /\ e.slug = sim.slug
               /\ sim' = IF e.tags = {}
                         THEN [sim EXCEPT !.pc = "done", !.source = e.id,
                                          !.outcome = "notags"]
                         ELSE [sim EXCEPT !.pc = "find", !.source = e.id,
                                          !.tags = e.tags]
       ELSE sim' = [sim EXCEPT !.pc = "done", !.outcome = "unknown"]
    /\ UNCHANGED <<events, clock, doc, bookings, calls, form, analytics, get>>

\* await Event.find(...).limit(limit).sort(...): the similar events
SimFind ==
    /\ sim.pc = "find"
    /\ \E o \in SortThenLimit(Matches(events, sim.source, sim.tags), sim.limit) :
          sim' = [sim EXCEPT !.pc = "done", !.result = Ids(o), !.seen = events,
                             !.outcome = "found"]
    /\ UNCHANGED <<events, clock, doc, bookings, calls, form, analytics, get>>

\* a store access throws; the catch block returns []
SimFault ==
    /\ sim.pc \in {"connect", "findOne", "find"}
    /\ sim' = [sim EXCEPT !.pc = "done", !.result = <<>>, !.outcome = "error"]
    /\ UNCHANGED <<events, clock, doc, bookings, calls, form, analytics, get>>

TitleC == <<"c">>
\* the events saved: a source with one tag or two, others that share a tag
\* with it or may not, and one without tags
SimEvents ==
    {<<TitleA, {TagAi}>>, <<TitleA, {TagAi, TagInfra}>>,
     <<TitleB, {TagAi}>>, <<TitleB, {TagInfra}>>,
     <<TitleC, {TagInfra}>>, <<TitleC, {TagAi, TagInfra}>>, <<TitleC, {}>>}
SimSlugs == {<<>>, <<" ">>, <<"a">>, <<"z">>}
SimLimits == 0..MaxLimit \cup {DefaultLimit}

NextSimilar ==
    \/ \E ev \in SimEvents : SaveEvent(ev[1], ev[2], 1, TRUE, TRUE)
    \/ Tick
    \/ \E slug \in SimSlugs, limit \in SimLimits : SimCall(slug, limit)
    \/ SimConnect
    \/ SimFindOne
    \/ SimFind
    \/ SimFault

SpecSimilar == Init /\ [][NextSimilar]_vars

\* the events of the collection the query saw that are similar to the source
SimilarSeen ==
    {e \in sim.seen : e.id # sim.source /\ \E t \in sim.tags : t \in e.tags}

SeenEvent(id) == CHOOSE e \in sim.seen : e.id = id

\* the result lists similar events only, each once, newest first, and no
\* similar event left out is newer than one listed
NewestSimilar ==
    /\ \A i \in 1..Len(sim.result) : \E e \in SimilarSeen : e.id = sim.result[i]
    /\ \A i, j \in 1..Len(sim.result) : i # j => sim.result[i] # sim.result[j]
    /\ \A i, j \in 1..Len(sim.result) :
          i < j => SeenEvent(sim.result[i]).createdAt >= SeenEvent(sim.result[j]).createdAt
    /\ \A e \in SimilarSeen :
          (\A i \in 1..Len(sim.result) : sim.result[i] # e.id)
          => \A i \in 1..Len(sim.result) : SeenEvent(sim.result[i]).createdAt >= e.createdAt

\* no source, or nothing to go by: the result is empty
EmptyWhenNoSource ==
    /\ sim.outcome \in {"invalid", "unknown", "notags", "error"} => sim.result = <<>>
    /\ sim.result # <<>>
       => \E e \in sim.seen : e.id = sim.source /\ e.slug = sim.slug /\ e.tags = sim.tags
                              /\ e.tags # {}

MinOf(a, b) == IF a < b THEN a ELSE b

----------------------------------------------------------------------------
(* The slug of an Event *)

TitleChars == {"a", "A", "_", "-", " ", "!"}
Titles == StringsUpTo(TitleChars, MaxTitleLen)

NextSlug ==
    \/ /\ doc.state = "none"
       /\ \E title \in Titles : DocCreate(title, {TagAi})
    \/ /\ doc.state = "saved"
       /\ \E title \in Titles : DocUpdateTitle(title)

SpecSlug == Init /\ [][NextSlug]_vars

\* only lowercase letters, digits and single hyphens, no hyphen first or last
SlugShape(s) ==
    /\ \A i \in 1..Len(s) : s[i] \in (LowerLetters \cup Digits \cup {"-"})
    /\ s # <<>> => (s[1] # "-" /\ s[Len(s)] # "-")
    /\ \A i \in 1..(Len(s) - 1) : ~(s[i] = "-" /\ s[i + 1] = "-")

\* C8 as stated: the slug derived from a title is the same whenever it is
\* derived (every stored slug is the one its title gives), and it holds only
\* lowercase alphanumerics and single hyphens, with no hyphen first or last.
C8_AsStated ==
    \A e \in events :
        /\ e.slug = SlugSetter(Slugify(e.title))
        /\ SlugShape(e.slug)

----------------------------------------------------------------------------
(* Reading back a stored Event by its own slug *)

\* the slugs a reader can take from the store
StoredSlugs == {e.slug : e \in events}

\* Events are created and retitled, and then read back: Event.create of
\* another event, Event.create of the document the caller keeps, title
\* updates of that document, and GET requests with the slug of a stored
\* event.  The writes come before the reads, so that a request sees the
\* store it took its slug from.
NextRetrieve ==
    \/ /\ doc.state = "none" /\ get.pc = "idle"
       /\ SaveEvent(TitleB, {TagAi}, 1, TRUE, TRUE)
    \/ /\ doc.state = "none" /\ get.pc = "idle"
       /\ \E title \in Titles : DocCreate(title, {TagAi})
    \/ /\ doc.state = "saved" /\ get.pc = "idle"
       /\ \E title \in Titles : DocUpdateTitle(title)
    \/ /\ get.pc \in {"idle", "done"}
       /\ \E slug \in StoredSlugs : GetRequest(slug)
    \/ GetConnect
    \/ GetQuery
    \/ \E namesUri \in BOOLEAN : GetFault(namesUri)

SpecRetrieve == Init /\ [][NextRetrieve]_vars

\* C11 as stated: after any creates and title updates, the slug of every
\* stored Event is non-empty and matches the route's slug pattern, and a GET
\* with the slug of a stored Event that has been answered, no store access
\* having failed, was answered 200 with that event, not 400.
C11_AsStated ==
    /\ \A e \in events : e.slug # <<>> /\ SlugRegexTest(e.slug)
    /\ (get.pc = "done" /\ ~get.faulted /\ get.slug \in StoredSlugs)
       => /\ get.status = 200
          /\ \E e \in events : e.id = get.event /\ e.slug = get.slug

============================================================================
